---- MODULE Spec2Model ----
(***************************************************************************)
(* A model of PacverseRoom (src/src/rooms/PacverseRoom.ts): the replicated  *)
(* entity and user collections, the clientEntities ownership index, the     *)
(* server clock, the custom logic hooks and the reconnection wait of        *)
(* onLeave.  A room is single threaded: every handler runs to completion,   *)
(* and onLeave is split in two at its only await (allowReconnection).       *)
(*                                                                         *)
(* JavaScript values are rendered as strings: Null stands for null and      *)
(* undefined, numbers are written in decimal ("0", "1", ..., "NaN").        *)
(***************************************************************************)
EXTENDS Integers, Sequences, FiniteSets, TLC

\* ------------------------------------------------------------ bounds ----
\* the server time at which the model stops ticking
MaxTime == 1
\* the largest number that the model reads and writes
MaxNum == 4
\* the most (key, value) units and the most tokens of an update array after its
\* entity id in the update specification
MaxOps == 2
MaxTokens == 3

Clients == {"c1", "c2"}
Accounts == {"A", "B"}
\* the accounts a connection may present when it joins: c1 holds one wallet,
\* c2 may present the same one or its own
Wallets(c) == IF c = "c1" THEN {"A"} ELSE Accounts

\* ------------------------------------------------------- JS values ------
Null == "null"
NaN == -1
\* the decimal numerals of 0..MaxNum
Digits == [n \in 1..(MaxNum + 1) |-> ToString(n - 1)]

\* parseFloat on the strings the model uses: a decimal numeral parses to its
\* value, anything else (undefined, "inc", a field name, "NaN") to NaN.
parseFloat(s) ==
    LET ns == {n \in 1..Len(Digits) : Digits[n] = s}
    IN  IF ns = {} THEN NaN ELSE (CHOOSE n \in ns : TRUE) - 1

\* Number.prototype.toString
toString(n) == IF n = NaN THEN "NaN" ELSE Digits[n + 1]

\* a + b on numbers: NaN is absorbing
Plus(a, b) == IF a = NaN \/ b = NaN THEN NaN ELSE a + b

\* generateId(): the k-th identifier handed out; identifiers never repeat
IdNames == <<"e1", "e2">>
generateId(k) == IdNames[k + 1]
\* the entity ids that the room specification creates and that its messages name
EntityIds == {"e1"}

\* a MapSchema<string>: a function from the keys that are set to their values
EmptyMap == [k \in {} |-> Null]
MapGet(m, k) == IF k \in DOMAIN m THEN m[k] ELSE Null
MapSet(m, k, v) == [x \in DOMAIN m \cup {k} |-> IF x = k THEN v ELSE m[x]]
MapDelete(m, k) == [x \in DOMAIN m \ {k} |-> m[x]]

RECURSIVE MapDeleteAll(_, _)
MapDeleteAll(m, ids) ==
    IF ids = <<>> THEN m ELSE MapDeleteAll(MapDelete(m, Head(ids)), Tail(ids))

\* an optional message or array member: data[i] past the end is undefined
At(data, i) == IF i \in 1..Len(data) THEN data[i] ELSE Null

VARIABLES
    phase,                  \* "constructed" before onCreate has run, then "running"
    clients,                \* per connection: "none", "joined", "waiting", "closed"
    networkedEntities,      \* state.networkedEntities: id -> entity
    networkedUsers,         \* state.networkedUsers: sessionId -> user
    clientEntities,         \* clientEntities: client.id -> sequence of entity ids
    serverTime,             \* serverTime
    customMethodController, \* Null, or "loaded"
    nextId,                 \* how many identifiers generateId has handed out
    heldAtLeave,            \* history: waiting connection -> its entities present at the leave
    sent,                   \* the messages that the handler that ran last sent to clients
    staleAtPurge,           \* history: the ids that the index entry deleted by the handler
                            \* that ran last listed and the collection no longer held
    last                    \* the handler that ran last, its arguments and how it ended

vars == <<phase, clients, networkedEntities, networkedUsers, clientEntities,
          serverTime, customMethodController, nextId, heldAtLeave, sent,
          staleAtPurge, last>>

\* how a handler ends: "ok"; "ignored" (early return); "rejected" (join refused);
\* "caught" (a hook threw and the call site caught it); "escaped" (a hook threw and
\* the exception left the handler); "typeError" (the handler itself threw);
\* "returned" (a purge called ProcessUserLeft and it returned)
Done(op, c, target, outcome) ==
    [op |-> op, client |-> c, target |-> target, outcome |-> outcome]

\* client.send and broadcast: a message of a type to a client; clientId is the
\* connection identity stamped on a relayed remote function call
Message(to, type, clientId) == [to |-> to, type |-> type, clientId |-> clientId]

\* a hook of the custom logic module either returns or throws; with no module
\* loaded no hook is called
HookOutcomes(controller) ==
    IF controller = Null THEN {"returns"} ELSE {"returns", "throws"}

Init ==
    /\ phase = "constructed"
    /\ clients = [c \in Clients |-> "none"]
    /\ networkedEntities = EmptyMap
    /\ networkedUsers = EmptyMap
    /\ clientEntities = EmptyMap
    /\ serverTime = 0
    /\ customMethodController = Null
    /\ nextId = 0
    /\ heldAtLeave = EmptyMap
    /\ sent = {}
    /\ staleAtPurge = {}
    /\ last = Done("new", Null, Null, "ok")

\* onCreate: getCustomLogic sets customMethodController when the import
\* succeeds; InitializeLogic runs inside try/catch.
OnCreate(logic) ==
    /\ phase = "constructed"
    /\ phase' = "running"
    /\ customMethodController' = logic
    /\ \E hook \in HookOutcomes(logic) :
           last' = Done("onCreate", Null, Null,
                        IF hook = "throws" THEN "caught" ELSE "ok")
    /\ UNCHANGED <<clients, networkedEntities, networkedUsers, clientEntities,
                   serverTime, nextId, heldAtLeave>>
    /\ sent' = {}
    /\ staleAtPurge' = {}

\* the setSimulationInterval callback
Tick(dt) ==
    /\ phase = "running"
    /\ serverTime + dt <= MaxTime
    /\ serverTime' = serverTime + dt
    /\ \E hook \in HookOutcomes(customMethodController) :
           last' = Done("tick", Null, Null,
                        IF hook = "throws" THEN "caught" ELSE "ok")
    /\ UNCHANGED <<phase, clients, networkedEntities, networkedUsers, clientEntities,
                   customMethodController, nextId, heldAtLeave>>
    /\ sent' = {}
    /\ staleAtPurge' = {}

\* ------------------------------------------------------- entities -------
\* A ColyseusNetworkedEntity.  xPos stands for the seven position and rotation
\* fields, which the code treats alike.  creator is history, not a field of the
\* schema: the connection whose createEntity made the entity.
DeclaredFields == {"id", "ownerId", "timestamp", "xPos"}

NewEntity(id, owner, now) ==
    [id |-> id, ownerId |-> owner, timestamp |-> now, xPos |-> Null,
     attributes |-> EmptyMap, creator |-> owner]

\* createEntity messages: the attributes object of the creation message
CreateMessages == { EmptyMap }

\* the for..in loop of createEntity over creationMessage.attributes
RECURSIVE CreationLoop(_, _, _)
CreationLoop(ent, attrs, keys) ==
    IF keys = {} THEN ent
    ELSE LET key == CHOOSE k \in keys : TRUE
             nxt == IF key = "creationPos"
                    THEN [ent EXCEPT !.xPos = toString(parseFloat(attrs[key]))]
                    ELSE [ent EXCEPT !.attributes = MapSet(@, key, attrs[key])]
         IN  CreationLoop(nxt, attrs, keys \ {key})

\* data[i] with JavaScript's 0-based index
Tok(data, i) == At(data, i + 1)

\* an assignment that also records the pair in the attribute map
SetFieldAndAttribute(ent, property, value) ==
    [f \in DOMAIN ent |->
        IF f = property /\ property \in DeclaredFields THEN value
        ELSE IF f = "attributes" THEN MapSet(ent.attributes, property, value)
        ELSE ent[f]]

\* (stateToUpdate as any)[property] = updateValue: a declared field takes the
\* value; any other name is a plain property that is not replicated state
SetField(ent, property, value) ==
    IF property \in DeclaredFields
    THEN [f \in DOMAIN ent |-> IF f = property THEN value ELSE ent[f]]
    ELSE ent

\* a loop without the i++ of the increment: the amount token is read as the
\* next property
RECURSIVE UpdateLoopNoSkip(_, _, _, _)
UpdateLoopNoSkip(ent, data, i, startIndex) ==
    IF i >= Len(data) THEN [entity |-> ent, threw |-> FALSE]
    ELSE LET property == Tok(data, i)
             isInc == Tok(data, i + 1) = "inc"
             updateValue ==
                 IF isInc
                 THEN toString(Plus(parseFloat(MapGet(ent.attributes, property)),
                                    parseFloat(Tok(data, i + 2))))
                 ELSE Tok(data, i + 1)
         IN  IF startIndex = 2
             THEN IF updateValue = Null
                  THEN [entity |-> ent, threw |-> TRUE]
                  ELSE UpdateLoopNoSkip(
                           [ent EXCEPT !.attributes = MapSet(@, property, updateValue)],
                           data, i + 2, startIndex)
             ELSE UpdateLoopNoSkip(SetField(ent, property, updateValue),
                                   data, i + 2, startIndex)

\* the for loop of onEntityUpdate from index i on.  In attribute mode a value
\* that is undefined makes updateValue.toString() throw, which ends the handler
\* with the earlier pairs applied.
RECURSIVE UpdateLoop(_, _, _, _)
UpdateLoop(ent, data, i, startIndex) ==
    IF i >= Len(data) THEN [entity |-> ent, threw |-> FALSE]
    ELSE LET property == Tok(data, i)
             isInc == Tok(data, i + 1) = "inc"
             updateValue ==
                 IF isInc
                 THEN toString(Plus(parseFloat(MapGet(ent.attributes, property)),
                                    parseFloat(Tok(data, i + 2))))
                 ELSE Tok(data, i + 1)
             step == IF isInc THEN 3 ELSE 2
         IN  IF startIndex = 2
             THEN IF updateValue = Null
                  THEN [entity |-> ent, threw |-> TRUE]
                  ELSE UpdateLoop([ent EXCEPT !.attributes = MapSet(@, property, updateValue)],
                                  data, i + step, startIndex)
             ELSE UpdateLoop(SetField(ent, property, updateValue),
                             data, i + step, startIndex)

\* onEntityUpdate on an existing entity: the loop, then the timestamp
onEntityUpdate(ent, data, now) ==
    LET startIndex == IF Tok(data, 1) = "attributes" THEN 2 ELSE 1
        r == UpdateLoop(ent, data, startIndex, startIndex)
    IN  IF r.threw THEN r
        ELSE [entity |-> [f \in DOMAIN r.entity |->
                             IF f = "timestamp" THEN now ELSE r.entity[f]],
              threw |-> FALSE]

\* the token arrays after the entity id that clients send
UpdateRests ==
    { <<"attributes", "score", "1">>,
      <<"attributes", "score", "1", "score">> }
    \cup { <<"ownerId", c>> : c \in Clients }

\* a room that awaits the reconnection before it dispatches anything else
DispatchableWhenNoWait(c) ==
    /\ phase = "running"
    /\ clients[c] = "joined"
    /\ \A w \in Clients : clients[w] # "waiting"

\* a connection whose messages the room dispatches
Dispatchable(c) == phase = "running" /\ clients[c] = "joined"

\* the "createEntity" handler
CreateEntity(c, attrs, entityViewID) ==
    /\ Dispatchable(c)
    /\ nextId < Len(IdNames)
    /\ entityViewID = generateId(nextId)
    /\ LET newEntity == CreationLoop(NewEntity(entityViewID, c, serverTime),
                                     attrs, DOMAIN attrs)
       IN  /\ networkedEntities' = MapSet(networkedEntities, entityViewID, newEntity)
           /\ clientEntities' =
                  IF c \in DOMAIN clientEntities
                  THEN [clientEntities EXCEPT ![c] = Append(@, entityViewID)]
                  ELSE MapSet(clientEntities, c, <<entityViewID>>)
           /\ last' = Done("createEntity", Null, Null, "ok")
    /\ nextId' = nextId + 1
    /\ UNCHANGED <<phase, clients, networkedUsers, serverTime,
                   customMethodController, heldAtLeave>>
    /\ sent' = {}
    /\ staleAtPurge' = {}

\* the "removeEntity" handler
RemoveEntity(c, removeId) ==
    /\ Dispatchable(c)
    /\ networkedEntities' =
           IF removeId \in DOMAIN networkedEntities
           THEN MapDelete(networkedEntities, removeId)
           ELSE networkedEntities
    /\ last' = Done("removeEntity", Null, Null,
                    IF removeId \in DOMAIN networkedEntities THEN "ok" ELSE "ignored")
    /\ UNCHANGED <<phase, clients, networkedUsers, clientEntities, serverTime,
                   customMethodController, nextId, heldAtLeave>>
    /\ sent' = {}
    /\ staleAtPurge' = {}

\* the target discriminants of remote function calls: 0 and another value
Targets == {0, 1}

\* the clients of this.clients: the connections that are open in the room
Connected == {d \in Clients : clients[d] = "joined"}

\* a relay that leaves the caller out whatever the target says
RemoteFunctionCallExceptCaller(c, entityId, target) ==
    /\ Dispatchable(c)
    /\ IF entityId \notin DOMAIN networkedEntities
       THEN /\ sent' = {}
            /\ last' = Done("remoteFunctionCall", c, toString(target), "ignored")
       ELSE /\ sent' = {Message(d, "onRFC", c) : d \in Connected \ {c}}
            /\ last' = Done("remoteFunctionCall", c, toString(target), "ok")
    /\ staleAtPurge' = {}
    /\ UNCHANGED <<phase, clients, networkedEntities, networkedUsers, clientEntities,
                   serverTime, customMethodController, nextId, heldAtLeave>>

\* the "remoteFunctionCall" handler: the message is stamped with client.id and
\* broadcast as onRFC, to everyone when target == 0, else to all but the caller
RemoteFunctionCall(c, entityId, target) ==
    /\ Dispatchable(c)
    /\ IF entityId \notin DOMAIN networkedEntities
       THEN /\ sent' = {}
            /\ last' = Done("remoteFunctionCall", c, toString(target), "ignored")
       ELSE /\ sent' = {Message(d, "onRFC", c) :
                          d \in IF target = 0 THEN Connected ELSE Connected \ {c}}
            /\ last' = Done("remoteFunctionCall", c, toString(target), "ok")
    /\ staleAtPurge' = {}
    /\ UNCHANGED <<phase, clients, networkedEntities, networkedUsers, clientEntities,
                   serverTime, customMethodController, nextId, heldAtLeave>>

\* an entityUpdate handler that makes the entity when the id names none
EntityUpdateOrCreate(c, data) ==
    /\ Dispatchable(c)
    /\ LET ent == IF data[1] \in DOMAIN networkedEntities
                  THEN networkedEntities[data[1]]
                  ELSE NewEntity(data[1], c, serverTime)
           r == onEntityUpdate(ent, data, serverTime)
       IN  /\ networkedEntities' = MapSet(networkedEntities, data[1], r.entity)
           /\ last' = Done("entityUpdate", Null, Null,
                           IF r.threw THEN "typeError" ELSE "ok")
    /\ UNCHANGED <<phase, clients, networkedUsers, clientEntities, serverTime,
                   customMethodController, nextId, heldAtLeave>>
    /\ sent' = {}
    /\ staleAtPurge' = {}

\* the "entityUpdate" handler and onEntityUpdate
EntityUpdate(c, data) ==
    /\ Dispatchable(c)
    /\ IF data[1] \notin DOMAIN networkedEntities
       THEN /\ networkedEntities' = networkedEntities
            /\ last' = Done("entityUpdate", Null, Null, "ignored")
       ELSE LET r == onEntityUpdate(networkedEntities[data[1]], data, serverTime)
            IN  /\ networkedEntities' = [networkedEntities EXCEPT ![data[1]] = r.entity]
                /\ last' = Done("entityUpdate", Null, Null,
                                IF r.threw THEN "typeError" ELSE "ok")
    /\ UNCHANGED <<phase, clients, networkedUsers, clientEntities, serverTime,
                   customMethodController, nextId, heldAtLeave>>
    /\ sent' = {}
    /\ staleAtPurge' = {}

\* ---------------------------------------------------------- users -------
\* A ColyseusNetworkedUser as onJoin builds it.  The timestamp is a sequence:
\* empty until setAttribute first assigns it, then the one time assigned.
NewUserConnected == TRUE

NewUser(c, account) ==
    [id |-> c, sessionId |-> c, account |-> account, connected |-> NewUserConnected,
     timestamp |-> <<>>, attributes |-> EmptyMap]

\* a scan that skips the users waiting for a reconnection
AccountTakenAmongConnected(users, account) ==
    \E key \in DOMAIN users : users[key].connected /\ users[key].account = account

\* the scan of onJoin over networkedUsers.toJSON()
AccountTaken(users, account) ==
    \E key \in DOMAIN users : users[key].account = account

\* an onJoin whose rejection lacks the return: the notice is sent and the join
\* goes on
OnJoinWithoutReturn(c, account) ==
    /\ phase = "running"
    /\ clients[c] = "none"
    /\ clients' = [clients EXCEPT ![c] = "joined"]
    /\ networkedUsers' = MapSet(networkedUsers, c, NewUser(c, account))
    /\ sent' = (IF AccountTaken(networkedUsers, account)
                THEN {Message(c, "WalletNotPass", Null)} ELSE {})
               \cup {Message(c, "onJoin", Null)}
    /\ last' = Done("onJoin", c, account,
                    IF AccountTaken(networkedUsers, account) THEN "rejected" ELSE "ok")
    /\ staleAtPurge' = {}
    /\ UNCHANGED <<phase, networkedEntities, clientEntities, serverTime,
                   customMethodController, nextId, heldAtLeave>>

\* onJoin
OnJoin(c, account) ==
    /\ phase = "running"
    /\ clients[c] = "none"
    /\ clients' = [clients EXCEPT ![c] = "joined"]
    /\ IF AccountTaken(networkedUsers, account)
       THEN /\ networkedUsers' = networkedUsers
            /\ sent' = {Message(c, "WalletNotPass", Null)}
            /\ last' = Done("onJoin", c, account, "rejected")
       ELSE /\ networkedUsers' = MapSet(networkedUsers, c, NewUser(c, account))
            /\ sent' = {Message(c, "onJoin", Null)}
            /\ last' = Done("onJoin", c, account, "ok")
    /\ staleAtPurge' = {}
    /\ UNCHANGED <<phase, networkedEntities, clientEntities, serverTime,
                   customMethodController, nextId, heldAtLeave>>

\* setAttribute messages: a message is a record with the members it carries
AttributesToSet == { [k \in {"score"} |-> "1"] }
\* the user ids that messages name: c1's session, whether or not c1 has a record
UserTargets == {"c1"}
SetAttributeMessages ==
    { [attributesToSet |-> a] : a \in AttributesToSet }
    \cup { [entityId |-> e] : e \in EntityIds }
    \cup { [entityId |-> e, attributesToSet |-> a] :
             e \in EntityIds, a \in AttributesToSet }
    \cup { [userId |-> u, attributesToSet |-> a] :
             u \in UserTargets, a \in AttributesToSet }
    \cup { [entityId |-> e, userId |-> u, attributesToSet |-> a] :
             e \in EntityIds, u \in UserTargets, a \in AttributesToSet }

\* which of entityId and userId a message carries
Target(msg) ==
    IF "entityId" \in DOMAIN msg
    THEN IF "userId" \in DOMAIN msg THEN "both" ELSE "entity"
    ELSE IF "userId" \in DOMAIN msg THEN "user" ELSE "neither"

\* the loops of setAttribute over Object.keys(attributesToSet)
RECURSIVE SetAll(_, _, _)
SetAll(attributes, toSet, keys) ==
    IF keys = {} THEN attributes
    ELSE LET key == CHOOSE k \in keys : TRUE
         IN  SetAll(MapSet(attributes, key, toSet[key]), toSet, keys \ {key})

\* a setAttribute that takes a message without a target to mean every user
setAttributeOfAllUsers(entities, users, msg, now) ==
    IF "attributesToSet" \notin DOMAIN msg
    THEN [entities |-> entities, users |-> users, outcome |-> "ignored"]
    ELSE IF "entityId" \in DOMAIN msg
    THEN IF msg.entityId \notin DOMAIN entities
         THEN [entities |-> entities, users |-> users, outcome |-> "ignored"]
         ELSE [entities |->
                  [entities EXCEPT ![msg.entityId] =
                      [@ EXCEPT !.timestamp = now,
                                !.attributes = SetAll(@, msg.attributesToSet,
                                                      DOMAIN msg.attributesToSet)]],
               users |-> users, outcome |-> "ok"]
    ELSE [entities |-> entities,
          users |->
             [u \in DOMAIN users |->
                 IF "userId" \in DOMAIN msg => msg.userId = u
                 THEN [users[u] EXCEPT !.timestamp = <<now>>,
                                       !.attributes = SetAll(@, msg.attributesToSet,
                                                             DOMAIN msg.attributesToSet)]
                 ELSE users[u]],
          outcome |-> "ok"]

\* setAttribute: the collections after the message
setAttribute(entities, users, msg, now) ==
    IF \/ ("entityId" \notin DOMAIN msg /\ "userId" \notin DOMAIN msg)
       \/ "attributesToSet" \notin DOMAIN msg
    THEN [entities |-> entities, users |-> users, outcome |-> "ignored"]
    ELSE IF "entityId" \in DOMAIN msg
    THEN IF msg.entityId \notin DOMAIN entities
         THEN [entities |-> entities, users |-> users, outcome |-> "ignored"]
         ELSE [entities |->
                  [entities EXCEPT ![msg.entityId] =
                      [@ EXCEPT !.timestamp = now,
                                !.attributes = SetAll(@, msg.attributesToSet,
                                                      DOMAIN msg.attributesToSet)]],
               users |-> users, outcome |-> "ok"]
    ELSE IF msg.userId \notin DOMAIN users
         THEN [entities |-> entities, users |-> users, outcome |-> "ignored"]
         ELSE [entities |-> entities,
               users |->
                  [users EXCEPT ![msg.userId] =
                      [@ EXCEPT !.timestamp = <<now>>,
                                !.attributes = SetAll(@, msg.attributesToSet,
                                                      DOMAIN msg.attributesToSet)]],
               outcome |-> "ok"]

\* the "setAttribute" handler
SetAttribute(c, msg) ==
    /\ Dispatchable(c)
    /\ LET r == setAttribute(networkedEntities, networkedUsers, msg, serverTime)
       IN  /\ networkedEntities' = r.entities
           /\ networkedUsers' = r.users
           /\ last' = Done("setAttribute", Null, Target(msg), r.outcome)
    /\ UNCHANGED <<phase, clients, clientEntities, serverTime,
                   customMethodController, nextId, heldAtLeave>>
    /\ sent' = {}
    /\ staleAtPurge' = {}

\* onCustomMethod: ProcessMethod runs inside try/catch
CustomMethod(c) ==
    /\ Dispatchable(c)
    /\ \E hook \in HookOutcomes(customMethodController) :
           last' = Done("customMethod", Null, Null,
                        IF hook = "throws" THEN "caught" ELSE "ok")
    /\ UNCHANGED <<phase, clients, networkedEntities, networkedUsers, clientEntities,
                   serverTime, customMethodController, nextId, heldAtLeave>>
    /\ sent' = {}
    /\ staleAtPurge' = {}

\* ------------------------------------------------------ departure -------
\* the entity ids that clientEntities lists under c
IndexIds(c) == {clientEntities[c][k] : k \in 1..Len(clientEntities[c])}

\* a purge that clears the whole entity collection and index
PurgeEverything(c, op, target) ==
    /\ networkedUsers' = MapDelete(networkedUsers, c)
    /\ networkedEntities' = EmptyMap
    /\ clientEntities' = EmptyMap
    /\ last' = Done(op, c, target, "ok")
    /\ clients' = [clients EXCEPT ![c] = "closed"]
    /\ heldAtLeave' = MapDelete(heldAtLeave, c)
    /\ sent' = {}
    /\ staleAtPurge' = IF c \in DOMAIN clientEntities
                       THEN IndexIds(c) \ DOMAIN networkedEntities
                       ELSE {}

\* the catch block of onLeave.  ProcessUserLeft is called from inside the catch
\* block, with no try around it, and only when the connection has an index entry.
Purge(c, op, target) ==
    /\ networkedUsers' = MapDelete(networkedUsers, c)
    /\ IF c \in DOMAIN clientEntities
       THEN /\ networkedEntities' = MapDeleteAll(networkedEntities, clientEntities[c])
            /\ clientEntities' = MapDelete(clientEntities, c)
            /\ \E hook \in HookOutcomes(customMethodController) :
                   last' = Done(op, c, target,
                                IF hook = "throws" THEN "escaped"
                                ELSE IF customMethodController # Null THEN "returned"
                                ELSE "ok")
       ELSE /\ networkedEntities' = networkedEntities
            /\ clientEntities' = clientEntities
            /\ last' = Done(op, c, target, "ok")
    /\ clients' = [clients EXCEPT ![c] = "closed"]
    /\ heldAtLeave' = MapDelete(heldAtLeave, c)
    /\ sent' = {}
    /\ staleAtPurge' = IF c \in DOMAIN clientEntities
                       THEN IndexIds(c) \ DOMAIN networkedEntities
                       ELSE {}

\* the entities of c's index entry that are in the collection
Held(c) ==
    IF c \in DOMAIN clientEntities
    THEN IndexIds(c) \cap DOMAIN networkedEntities
    ELSE {}

\* an onLeave that waits for a reconnection whatever consented says
OnLeaveAlwaysWaits(c, consented) ==
    /\ Dispatchable(c)
    /\ networkedUsers' =
           IF c \in DOMAIN networkedUsers
           THEN [networkedUsers EXCEPT ![c].connected = FALSE]
           ELSE networkedUsers
    /\ clients' = [clients EXCEPT ![c] = "waiting"]
    /\ heldAtLeave' = MapSet(heldAtLeave, c, Held(c))
    /\ last' = Done("onLeave", c, IF consented THEN "consented" ELSE "unconsented", "ok")
    /\ UNCHANGED <<phase, networkedEntities, clientEntities, serverTime,
                   customMethodController, nextId>>
    /\ sent' = {}
    /\ staleAtPurge' = {}

\* onLeave up to its await.  The user is marked connected = false first; a
\* consented leave then throws inside the try and runs the catch block in the
\* same turn, which deletes the record; any other leave waits
OnLeave(c, consented) ==
    /\ Dispatchable(c)
    /\ IF consented
       THEN Purge(c, "onLeave", "consented")
       ELSE /\ networkedUsers' =
                   IF c \in DOMAIN networkedUsers
                   THEN [networkedUsers EXCEPT ![c].connected = FALSE]
                   ELSE networkedUsers
            /\ clients' = [clients EXCEPT ![c] = "waiting"]
            /\ heldAtLeave' = MapSet(heldAtLeave, c, Held(c))
            /\ last' = Done("onLeave", c, "unconsented", "ok")
            /\ sent' = {}
            /\ staleAtPurge' = {}
            /\ UNCHANGED <<networkedEntities, clientEntities>>
    /\ UNCHANGED <<phase, serverTime, customMethodController, nextId>>

\* allowReconnection resolves: onLeave logs and returns
Reconnected(c) ==
    /\ phase = "running"
    /\ clients[c] = "waiting"
    /\ clients' = [clients EXCEPT ![c] = "joined"]
    /\ last' = Done("reconnected", c, Null, "ok")
    /\ UNCHANGED <<phase, networkedEntities, networkedUsers, clientEntities, serverTime,
                   customMethodController, nextId, heldAtLeave>>
    /\ sent' = {}
    /\ staleAtPurge' = {}

\* an expiry that starts the wait again and purges nothing
ReconnectionExpiredWaitsAgain(c) ==
    /\ phase = "running"
    /\ clients[c] = "waiting"
    /\ last' = Done("expired", c, Null, "ok")
    /\ sent' = {}
    /\ staleAtPurge' = {}
    /\ UNCHANGED <<phase, clients, networkedEntities, networkedUsers, clientEntities,
                   serverTime, customMethodController, nextId, heldAtLeave>>

\* allowReconnection rejects after its 10 seconds: the catch block runs
ReconnectionExpired(c) ==
    /\ phase = "running"
    /\ clients[c] = "waiting"
    /\ Purge(c, "expired", Null)
    /\ UNCHANGED <<phase, serverTime, customMethodController, nextId>>

Next ==
    \/ \E logic \in {Null, "loaded"} : OnCreate(logic)
    \/ \E dt \in 1..MaxTime : Tick(dt)
    \/ \E c \in Clients, attrs \in CreateMessages, id \in EntityIds :
           CreateEntity(c, attrs, id)
    \/ \E c \in Clients, removeId \in EntityIds : RemoveEntity(c, removeId)
    \/ \E c \in Clients, id \in EntityIds, rest \in UpdateRests :
           EntityUpdate(c, <<id>> \o rest)
    \/ \E c \in Clients : \E account \in Wallets(c) : OnJoin(c, account)
    \/ \E c \in Clients, msg \in SetAttributeMessages : SetAttribute(c, msg)
    \/ \E c \in Clients : CustomMethod(c)
    \/ \E c \in Clients, consented \in BOOLEAN : OnLeave(c, consented)
    \/ \E c \in Clients : Reconnected(c)
    \/ \E c \in Clients : ReconnectionExpired(c)

Spec == Init /\ [][Next]_vars

\* ------------------------------------------------------- sessions -------
\* The room with both identifiers in use and the messages that do not write
\* attributes: joins, leaves, the reconnection wait, creation, removal, relay.
SessionIds == {generateId(k) : k \in 0..(Len(IdNames) - 1)}

NextSession ==
    \/ \E logic \in {Null, "loaded"} : OnCreate(logic)
    \/ \E c \in Clients : \E account \in Wallets(c) : OnJoin(c, account)
    \/ \E c \in Clients, attrs \in CreateMessages, id \in SessionIds :
           CreateEntity(c, attrs, id)
    \/ \E c \in Clients, removeId \in SessionIds : RemoveEntity(c, removeId)
    \/ \E c \in Clients, id \in SessionIds, target \in Targets :
           RemoteFunctionCall(c, id, target)
    \/ \E c \in Clients, consented \in BOOLEAN : OnLeave(c, consented)
    \/ \E c \in Clients : Reconnected(c)
    \/ \E c \in Clients : ReconnectionExpired(c)

SpecSession == Init /\ [][NextSession]_vars

\* allowReconnection(client, 10) rejects when its timer runs out: a wait that
\* no reconnection ends is ended by the expiry
FairSession == SpecSession /\ \A c \in Clients : WF_vars(ReconnectionExpired(c))

\* -------------------------------------------------------- updates -------
\* onEntityUpdate on one entity, over every update array of a small alphabet.
\* The room is as it is after onCreate, the join of c1 and its createEntity.
SeqsUpTo(S, n) == UNION { [1..k -> S] : k \in 0..n }

\* attribute mode: an update is a sequence of units, (key, value) or
\* (key, "inc", amount); "inc" is also a key
Keys == {"score", "inc"}
Units ==
    [key : Keys, inc : {FALSE}, value : {"1"}]
    \cup [key : Keys, inc : {TRUE}, value : {"1", "2"}]

\* the tokens of a sequence of units
RECURSIVE Flatten(_)
Flatten(units) ==
    IF units = <<>> THEN <<>>
    ELSE LET u == Head(units)
         IN  (IF u.inc THEN <<u.key, "inc", u.value>> ELSE <<u.key, u.value>>)
             \o Flatten(Tail(units))

AttributeRests == { <<"attributes">> \o Flatten(units) : units \in SeqsUpTo(Units, MaxOps) }

\* direct-field mode: every token sequence over two field names, a value and "inc"
DirectTokens == {"xPos", "timestamp", "4", "inc"}
DirectRests == SeqsUpTo(DirectTokens, MaxTokens)

\* the sum of the numerals among the tokens
RECURSIVE TokenSum(_)
TokenSum(tokens) ==
    IF tokens = <<>> THEN 0
    ELSE LET n == parseFloat(Head(tokens))
         IN  (IF n = NaN THEN 0 ELSE n) + TokenSum(Tail(tokens))

\* no sum that the update can make exceeds MaxNum
InRange(ent, rest) ==
    LET sum == TokenSum(rest)
    IN  /\ sum <= MaxNum
        /\ \A k \in DOMAIN ent.attributes :
               LET n == parseFloat(ent.attributes[k])
               IN  n # NaN => n + sum <= MaxNum

UpdateCreateMessages == { EmptyMap, [k \in {"score"} |-> "1"] }

InitUpdate ==
    /\ phase = "running"
    /\ clients = [c \in Clients |-> IF c = "c1" THEN "joined" ELSE "none"]
    /\ \E attrs \in UpdateCreateMessages :
           networkedEntities =
               MapSet(EmptyMap, generateId(0),
                      CreationLoop(NewEntity(generateId(0), "c1", 0), attrs, DOMAIN attrs))
    /\ networkedUsers = MapSet(EmptyMap, "c1", NewUser("c1", "A"))
    /\ clientEntities = MapSet(EmptyMap, "c1", <<generateId(0)>>)
    /\ serverTime = 0
    /\ customMethodController = Null
    /\ nextId = 1
    /\ heldAtLeave = EmptyMap
    /\ sent = {}
    /\ staleAtPurge = {}
    /\ last = Done("createEntity", Null, Null, "ok")

NextUpdate ==
    \/ \E dt \in 1..MaxTime : Tick(dt)
    \/ \E c \in Clients, id \in EntityIds, rest \in AttributeRests \cup DirectRests :
           /\ Dispatchable(c)
           /\ id \in DOMAIN networkedEntities
           /\ InRange(networkedEntities[id], rest)
           /\ EntityUpdate(c, <<id>> \o rest)

SpecUpdate == InitUpdate /\ [][NextUpdate]_vars

\* ------------------------------------------------------- properties ----

\* C1: every entity id that the Ownership Index lists under connection c names an
\* entity that is in the entity collection and whose ownerId is c.
C1_IndexConsistent ==
    \A c \in DOMAIN clientEntities :
        \A id \in IndexIds(c) :
            /\ id \in DOMAIN networkedEntities
            /\ networkedEntities[id].ownerId = c

\* C2: when the reconnection signal of a session arrives within the grace window,
\* the user's record has connected = true again and every entity of that connection
\* that was present at the leave is still in the entity collection.
C2_ReconnectRestores ==
    last.op = "reconnected" =>
        /\ last.client \in DOMAIN networkedUsers =>
               networkedUsers[last.client].connected
        /\ heldAtLeave[last.client] \subseteq DOMAIN networkedEntities

\* C3: the user collection holds at most one record per account; after a join that
\* was rejected for its account, exactly one record with that account is present
\* and none was made for the rejected connection.
C3_OneUserPerAccount ==
    /\ \A u, v \in DOMAIN networkedUsers :
           networkedUsers[u].account = networkedUsers[v].account => u = v
    /\ (last.op = "onJoin" /\ last.outcome = "rejected") =>
           /\ last.client \notin DOMAIN networkedUsers
           /\ Cardinality({u \in DOMAIN networkedUsers :
                              networkedUsers[u].account = last.target}) = 1

\* C3's case: a join is rejected because its account is held by a user who is
\* disconnected and waiting in the grace period.
C3_RejectedDuringGrace ==
    /\ last.op = "onJoin"
    /\ last.outcome = "rejected"
    /\ \E d \in DOMAIN networkedUsers :
           /\ clients[d] = "waiting"
           /\ ~networkedUsers[d].connected
           /\ networkedUsers[d].account = last.target

\* C4: when the grace window of connection c expires without a reconnection, no
\* user record of c's session, no entity whose ownerId is c and no Ownership Index
\* entry of c are left.
C4_ExpiryPurgesOwned ==
    last.op = "expired" =>
        /\ last.client \notin DOMAIN networkedUsers
        /\ \A e \in DOMAIN networkedEntities :
               networkedEntities[e].ownerId # last.client
        /\ last.client \notin DOMAIN clientEntities

C6_IdentityImmutable ==
    \A e \in DOMAIN networkedEntities :
        /\ networkedEntities[e].id = e
        /\ networkedEntities[e].ownerId = networkedEntities[e].creator

\* C7: timestamps never decrease, only a tick advances the server time, and an
\* entity or user that a step creates or changes (by createEntity, entityUpdate or
\* setAttribute) has the server time as its timestamp after the step.
C7_TimestampsFollowClock ==
    [][ /\ serverTime' >= serverTime
        /\ serverTime' # serverTime => last'.op = "tick"
        /\ \A e \in DOMAIN networkedEntities' :
               /\ e \in DOMAIN networkedEntities =>
                      networkedEntities'[e].timestamp >= networkedEntities[e].timestamp
               /\ (e \notin DOMAIN networkedEntities
                      \/ networkedEntities'[e] # networkedEntities[e]) =>
                      networkedEntities'[e].timestamp = serverTime'
        /\ \A u \in DOMAIN networkedUsers' \cap DOMAIN networkedUsers :
               /\ networkedUsers[u].timestamp # <<>> =>
                      /\ networkedUsers'[u].timestamp # <<>>
                      /\ networkedUsers'[u].timestamp[1] >= networkedUsers[u].timestamp[1]
               /\ (networkedUsers'[u].attributes # networkedUsers[u].attributes
                      \/ networkedUsers'[u].timestamp # networkedUsers[u].timestamp) =>
                      networkedUsers'[u].timestamp = <<serverTime'>>
      ]_vars

\* C8: an exception thrown by a hook of the custom logic module is caught where
\* the hook is called: no handler ends with the exception leaving it.
C8_HookExceptionsCaught == last.outcome # "escaped"

\* C9: while a reconnection wait is pending, the tick, the joins and every command
\* of the connected clients are enabled (the tick below the time bound, createEntity
\* while identifiers are left).
C9_WaitsDoNotBlock ==
    (\E w \in Clients : clients[w] = "waiting") =>
        /\ serverTime < MaxTime => ENABLED Tick(1)
        /\ \A d \in Clients :
               /\ clients[d] = "none" => \A a \in Wallets(d) : ENABLED OnJoin(d, a)
               /\ clients[d] = "joined" =>
                      /\ (nextId < Len(IdNames) /\ generateId(nextId) \in EntityIds) =>
                             \A attrs \in CreateMessages :
                                 ENABLED CreateEntity(d, attrs, generateId(nextId))
                      /\ \A id \in EntityIds :
                             /\ ENABLED RemoveEntity(d, id)
                             /\ \A rest \in UpdateRests :
                                    ENABLED EntityUpdate(d, <<id>> \o rest)
                      /\ \A msg \in SetAttributeMessages : ENABLED SetAttribute(d, msg)
                      /\ ENABLED CustomMethod(d)
                      /\ \A consented \in BOOLEAN : ENABLED OnLeave(d, consented)

\* C9's case: a command of one connection has just been handled while another
\* connection's reconnection wait is pending.
C9_ServedDuringWait ==
    /\ last.op \in {"createEntity", "entityUpdate", "setAttribute", "removeEntity"}
    /\ last.outcome = "ok"
    /\ \E w, d \in Clients : clients[w] = "waiting" /\ clients[d] = "joined"

\* C10: a setAttribute message that carries neither entityId nor userId changes
\* nothing: the entities, the users, their attribute maps and timestamps stay.
C10_NoTargetIsNoOp ==
    [][ (last'.op = "setAttribute" /\ last'.target = "neither") =>
            UNCHANGED <<networkedEntities, networkedUsers, clientEntities, serverTime>>
      ]_vars

\* C10's case: such a message was handled while the room holds an entity and a user.
C10_NoTargetHandled ==
    /\ last.op = "setAttribute"
    /\ last.target = "neither"
    /\ networkedEntities # EmptyMap
    /\ networkedUsers # EmptyMap

\* C11: a setAttribute message that carries both an entityId and a userId is
\* ignored: no entity, no user, no attribute map and no timestamp changes.
C11_BothTargetsIgnored ==
    [][ (last'.op = "setAttribute" /\ last'.target = "both") =>
            UNCHANGED <<networkedEntities, networkedUsers, clientEntities>>
      ]_vars

\* C12: a join whose account is held by a present user record changes neither the
\* users, the entities nor the Ownership Index, and the only message it sends is
\* the rejection notice to the requester (no onJoin event).
C12_RejectedJoinChangesNothing ==
    [][ \A c \in Clients :
            ( /\ clients[c] = "none"
              /\ last'.op = "onJoin"
              /\ last'.client = c
              /\ \E u \in DOMAIN networkedUsers :
                     networkedUsers[u].account = last'.target ) =>
            /\ UNCHANGED <<networkedEntities, networkedUsers, clientEntities>>
            /\ sent' = {Message(c, "WalletNotPass", Null)}
      ]_vars

\* C12's case: a join has been rejected in a room that holds a user and an entity.
C12_RejectionNoticeSent ==
    /\ last.op = "onJoin"
    /\ last.outcome = "rejected"
    /\ sent = {Message(last.client, "WalletNotPass", Null)}
    /\ networkedEntities # EmptyMap
    /\ networkedUsers # EmptyMap

\* what one unit does to an attribute map, as the update protocol states it
ApplyUnit(attrs, u) ==
    MapSet(attrs, u.key,
           IF u.inc
           THEN toString(parseFloat(attrs[u.key]) + parseFloat(u.value))
           ELSE u.value)

RECURSIVE ApplyUnits(_, _)
ApplyUnits(attrs, units) ==
    IF units = <<>> THEN attrs
    ELSE ApplyUnits(ApplyUnit(attrs, Head(units)), Tail(units))

\* every increment of the sequence finds a numeral under its key
RECURSIVE NumericWhenRead(_, _)
NumericWhenRead(attrs, units) ==
    \/ units = <<>>
    \/ /\ Head(units).inc =>
              /\ Head(units).key \in DOMAIN attrs
              /\ parseFloat(attrs[Head(units).key]) # NaN
       /\ NumericWhenRead(ApplyUnit(attrs, Head(units)), Tail(units))

\* C13: an attribute-mode update of an existing entity applies its units in
\* order, each to its own key: (key, "inc", b) writes the numeral of a + b where a
\* is the number under key, (key, value) writes value; and the entity's timestamp
\* ends equal to the server time.
C13_AttributeUnitsApplied ==
    \A id \in DOMAIN networkedEntities, units \in SeqsUpTo(Units, MaxOps) :
        LET ent == networkedEntities[id]
            rest == <<"attributes">> \o Flatten(units)
            r == onEntityUpdate(ent, <<id>> \o rest, serverTime)
        IN  (InRange(ent, rest) /\ NumericWhenRead(ent.attributes, units)) =>
                /\ ~r.threw
                /\ r.entity.attributes = ApplyUnits(ent.attributes, units)
                /\ r.entity.timestamp = serverTime

\* C13's case: an update has incremented the score that the entity was created
\* with, after the clock advanced.
C13_ScoreIncremented ==
    /\ last.op = "entityUpdate"
    /\ last.outcome = "ok"
    /\ serverTime = 1
    /\ \E id \in DOMAIN networkedEntities :
           /\ MapGet(networkedEntities[id].attributes, "score") = "3"
           /\ networkedEntities[id].timestamp = serverTime

\* the value of the last pair of rest that names field f
LastPaired(rest, f) ==
    LET ks == {k \in 1..Len(rest) : k % 2 = 1 /\ rest[k] = f}
        k == CHOOSE x \in ks : \A y \in ks : y <= x
    IN  At(rest, k + 1)

\* a field of an entity as a token: the timestamp is a number
Shown(ent, f) == IF f = "timestamp" THEN toString(ent.timestamp) ELSE ent[f]

\* C14 as stated: a direct-field update sets each declared field that it names to
\* the value paired with it and leaves the attribute map unchanged, for every
\* token sequence after the id.
C14_DirectPairsSetFields ==
    \A id \in DOMAIN networkedEntities, rest \in DirectRests :
        LET ent == networkedEntities[id]
            r == onEntityUpdate(ent, <<id>> \o rest, serverTime)
        IN  InRange(ent, rest) =>
                /\ r.entity.attributes = ent.attributes
                /\ \A k \in 1..Len(rest) :
                       (k % 2 = 1 /\ k < Len(rest) /\ rest[k] \in DeclaredFields) =>
                           Shown(r.entity, rest[k]) = LastPaired(rest, rest[k])

\* C14 amended: a direct-field update leaves the attribute map unchanged and ends
\* with the timestamp equal to the server time, for every token sequence; when no
\* token is "inc", each declared field but the timestamp ends with the value of
\* the last pair that names it, and keeps its value when no pair names it.
C14_DirectPairsWithoutInc ==
    \A id \in DOMAIN networkedEntities, rest \in DirectRests :
        LET ent == networkedEntities[id]
            r == onEntityUpdate(ent, <<id>> \o rest, serverTime)
        IN  InRange(ent, rest) =>
                /\ ~r.threw
                /\ r.entity.attributes = ent.attributes
                /\ r.entity.timestamp = serverTime
                /\ (\A k \in 1..Len(rest) : rest[k] # "inc") =>
                       \A f \in DeclaredFields \ {"timestamp"} :
                           r.entity[f] =
                               IF \E k \in 1..Len(rest) : k % 2 = 1 /\ rest[k] = f
                               THEN LastPaired(rest, f)
                               ELSE ent[f]

\* C14's case: a direct-field update has set the position of an entity that has
\* attributes, after the clock advanced.
C14_PositionSet ==
    /\ last.op = "entityUpdate"
    /\ last.outcome = "ok"
    /\ serverTime = 1
    /\ \E id \in DOMAIN networkedEntities :
           /\ networkedEntities[id].xPos = "4"
           /\ networkedEntities[id].attributes # EmptyMap
           /\ networkedEntities[id].timestamp = serverTime

\* C15: whenever a purge runs (consented leave or expired grace window) with a
\* custom logic module loaded, the post-departure hook is called, also when the
\* departing connection created no entity.
C15_PurgeCallsDepartureHook ==
    ( /\ customMethodController # Null
      /\ \/ last.op = "expired"
         \/ (last.op = "onLeave" /\ last.target = "consented") ) =>
        /\ last.outcome \in {"returned", "escaped"}
        /\ last.client \notin DOMAIN networkedUsers
        /\ last.client \notin DOMAIN clientEntities

\* a step that changes no collection and ends as an ignored message
Dropped ==
    /\ UNCHANGED <<networkedEntities, networkedUsers, clientEntities>>
    /\ last'.outcome = "ignored"

\* C18: an entityUpdate or an entity-targeted setAttribute that names an unknown
\* entity, a user-targeted setAttribute that names an unknown user and a
\* removeEntity of an absent id change no collection and raise no fault.
C18_UnknownIdsDropped ==
    [][ \A c \in Clients :
            /\ \A id \in EntityIds :
                   id \notin DOMAIN networkedEntities =>
                       /\ RemoveEntity(c, id) => Dropped
                       /\ \A rest \in UpdateRests :
                              EntityUpdate(c, <<id>> \o rest) => Dropped
            /\ \A msg \in SetAttributeMessages :
                   ( /\ "attributesToSet" \in DOMAIN msg
                     /\ IF "entityId" \in DOMAIN msg
                        THEN msg.entityId \notin DOMAIN networkedEntities
                        ELSE /\ "userId" \in DOMAIN msg
                             /\ msg.userId \notin DOMAIN networkedUsers
                     /\ SetAttribute(c, msg) ) => Dropped
      ]_vars

\* C18's case: a user-targeted setAttribute that names no user record has been
\* handled in a room that holds a user and an entity.
C18_UnknownUserHandled ==
    /\ last.op = "setAttribute"
    /\ last.target = "user"
    /\ last.outcome = "ignored"
    /\ UserTargets \cap DOMAIN networkedUsers = {}
    /\ networkedUsers # EmptyMap
    /\ networkedEntities # EmptyMap

\* C19: every entity in the collection is owned by a connection that has a user
\* record.
C19_EntitiesHaveUsers ==
    \A e \in DOMAIN networkedEntities :
        /\ networkedEntities[e].creator \in DOMAIN networkedUsers
        /\ networkedEntities[e].ownerId \in DOMAIN networkedUsers

C17_WaitEnds ==
    /\ [][ \A c \in Clients :
             /\ (clients[c] = "waiting" /\ clients'[c] # "waiting") =>
                    \/ clients'[c] = "joined" /\ last'.op = "reconnected"
                    \/ clients'[c] = "closed" /\ last'.op = "expired"
             /\ clients[c] = "closed" => clients'[c] = "closed"
             /\ (clients[c] = "joined" /\ clients'[c] = "closed") =>
                    (last'.op = "onLeave" /\ last'.client = c)
         ]_vars
    /\ \A c \in Clients :
           (clients[c] = "waiting") ~> (clients[c] \in {"joined", "closed"})

\* C17's case: the wait of a session has been ended by the expiry.
C17_WaitExpired ==
    /\ last.op = "expired"
    /\ clients[last.client] = "closed"

\* C20: the purge of connection c leaves every entity that another connection
\* created, every other user record and every other index entry as they were.
C20_PurgeTouchesOnlyOwn ==
    [][ \A c \in Clients :
            (clients[c] # "closed" /\ clients'[c] = "closed") =>
                /\ \A e \in DOMAIN networkedEntities :
                       networkedEntities[e].creator # c =>
                           /\ e \in DOMAIN networkedEntities'
                           /\ networkedEntities'[e] = networkedEntities[e]
                /\ \A u \in DOMAIN networkedUsers \ {c} :
                       /\ u \in DOMAIN networkedUsers'
                       /\ networkedUsers'[u] = networkedUsers[u]
                /\ \A d \in DOMAIN clientEntities \ {c} :
                       /\ d \in DOMAIN clientEntities'
                       /\ clientEntities'[d] = clientEntities[d]
      ]_vars

\* C20's case: a purge has deleted an index entry that listed an id already
\* removed, and another connection's entity, user record and index entry remain.
C20_PurgedWithStaleIndex ==
    /\ last.op \in {"onLeave", "expired"}
    /\ clients[last.client] = "closed"
    /\ staleAtPurge # {}
    /\ \E d \in Clients \ {last.client} :
           /\ d \in DOMAIN networkedUsers
           /\ d \in DOMAIN clientEntities
           /\ \E e \in DOMAIN networkedEntities : networkedEntities[e].creator = d
====
